---- MODULE Spec2Model ----
(***************************************************************************)
(* RandomBG: the wallpaper rotation service (random_bg/app.py,             *)
(* class WallpaperService) with its client threads and worker threads.     *)
(*                                                                         *)
(* Threads 1 and 2 are the client threads of the application (the Tk main  *)
(* thread and the tray thread of run_tray); threads 3.. are the worker     *)
(* threads that start() creates.  Every line of the service that reads or  *)
(* writes shared state is one step of the thread that executes it.         *)
(*                                                                         *)
(* Specifications:                                                         *)
(*   Spec      the service as run_tray drives it: the main thread calls    *)
(*             refresh_images, start and stop, the tray thread calls       *)
(*             next_wallpaper and stop;                                    *)
(*   LifeSpec  the service after run_tray's first refresh_images, with     *)
(*             both clients calling start and stop in any interleaving;    *)
(*   PoolSpec  both clients calling refresh_images and next_wallpaper,     *)
(*             with the history of the picks recorded;                     *)
(*   PoolFairSpec  PoolSpec with every thread scheduled fairly.            *)
(*   GateSpec  one client starting and stopping the service while the      *)
(*             screensaver comes and goes;                                 *)
(*   PolicySpec  the settings dialog saving a timing policy while the      *)
(*             worker computes its waits, _next_wait taken line by line.   *)
(*   ProbeSpec  GateSpec with a screensaver probe that can fail;          *)
(*   CatalogSpec  one client refreshing and picking on a folder that holds *)
(*             other entries than images, set_wallpaper writing its copy.  *)
(***************************************************************************)
EXTENDS Integers, Sequences, FiniteSets, TLC

\* Bounds of the model.
MaxWorkers == 2      \* worker Thread objects start() may create in one run
NImages == 2         \* image files the folder can hold
LowValue == 5        \* a number of seconds below the minimum of 10
HighValue == 12      \* a number of seconds above the minimum of 10

\* Program constants.
MinWait == 10        \* max(10, ...) of _next_wait
Step == 1            \* step = 1.0 of _wait_with_pause, in seconds

NoThread == 0
NoImage == 0
MainThread == 1
TrayThread == 2
Callers == {MainThread, TrayThread}
Workers == 3..(2 + MaxWorkers)
Threads == Callers \cup Workers
ImageIds == 1..NImages

VARIABLES
    images,      \* self._images: sequence of image ids
    index,       \* self._index
    lock,        \* self._lock: its owner, NoThread when free
    stopEvent,   \* self._stop_event: its flag
    thread,      \* self._thread: NoThread (None) or a worker
    tstate,      \* per worker Thread object: "free", "created", "alive", "dead"
    pc,          \* per thread: the line it is at
    ret,         \* per thread: where refresh_images returns to
    ctx,         \* per worker: who called _wait_for_screensaver ("run" or "wwp")
    waitTime,    \* per worker: wait_time of _run
    elapsed,     \* per worker: elapsed of _wait_with_pause
    imagePath,   \* per thread: image_path of next_wallpaper
    settings,    \* self.settings: the timing fields
    folder,      \* the image files of settings.folder
    screensaver, \* whether the screensaver is active now
    wallpaper,   \* the image last handed to set_wallpaper
    dialog,      \* the locals of SettingsWindow._save: the values it validated
    minWait,     \* per worker: min_wait of _next_wait
    maxWait,     \* per worker: max_wait of _next_wait
    seen,        \* history, per worker: the settings fields its _next_wait has read
    snaps,       \* history, per worker: the policies in effect during its _next_wait
    policies,    \* history: the policies in effect now (two while _save assigns)
    stopMark,    \* history, per worker: where it was when the stop signal was set
    gateMark,    \* history, per worker: the screensaver started during its countdown
    shown,       \* history: the picks of the current cycle
    lastCycle,   \* history: the picks of the cycle closed by the last wrap
    recent       \* history: the last 2N picks since the last refresh

poolv == <<images, index>>
lifev == <<stopEvent, thread, tstate>>
workv == <<ctx, waitTime, elapsed>>
envv == <<settings, folder, screensaver>>
hvars == <<shown, lastCycle, recent>>
polv == <<dialog, minWait, maxWait, seen, snaps, policies>>
vars == <<images, index, lock, stopEvent, thread, tstate, pc, ret, ctx, waitTime, elapsed,
          imagePath, settings, folder, screensaver, wallpaper, stopMark, gateMark, hvars,
          polv>>

----------------------------------------------------------------------------
\* Helpers

Max(a, b) == IF a >= b THEN a ELSE b
Min(a, b) == IF a <= b THEN a ELSE b

Range(s) == {s[i] : i \in 1..Len(s)}

\* All orders of a finite set: what random.shuffle can leave behind.
Perms(S) == {s \in [1..Cardinality(S) -> S] : Range(s) = S}

\* Mutant: a draw with replacement in place of the shuffle.
ShuffleWithRepeats(s) == [1..Len(s) -> Range(s)]

\* random.shuffle(self._images): any permutation of the same elements.
Shuffle(s) == Perms(Range(s))

\* The entries a folder can hold besides the user's images 1..NImages.
SharedCopy == NImages + 1      \* the file randombg_wallpaper.png
TextFile == NImages + 2        \* the file NOTES.TXT
SubDir == NImages + 3          \* the subdirectory album.gif
PlainFile == NImages + 4       \* the file png, a name without extension
NotADirectory == NImages + 5   \* stands for a path that is no directory
UserEntries == ImageIds \cup {TextFile, SubDir, PlainFile}

\* The extensions the user's images carry, as written in their names.
Extensions == <<".png", ".JPG", ".Jpeg", ".bmp", ".GIF">>

\* os.path.splitext(entry)[1]
Ext(e) ==
    IF e \in ImageIds THEN Extensions[((e - 1) % Len(Extensions)) + 1]
    ELSE IF e = SharedCopy THEN ".png"
    ELSE IF e = TextFile THEN ".TXT"
    ELSE IF e = SubDir THEN ".gif"
    ELSE ""

\* os.path.isfile(os.path.join(folder, entry))
IsFile(e) == e \notin {SubDir, NotADirectory}

\* os.path.isdir(folder)
IsDir(f) == NotADirectory \notin f

\* Mutant: the extension is compared as written.
LowerNone(x) == x

\* str.lower() on the extensions that occur
Lower(x) ==
    CASE x = ".JPG" -> ".jpg"
      [] x = ".Jpeg" -> ".jpeg"
      [] x = ".GIF" -> ".gif"
      [] x = ".TXT" -> ".txt"
      [] OTHER -> x

supported_extensions == {".png", ".jpg", ".jpeg", ".bmp", ".gif"}

\* iter_images(folder): nothing when the path is no directory; otherwise the
\* regular files of the folder with a supported extension, shuffled.
iter_images(f) ==
    IF ~IsDir(f) THEN {<<>>}
    ELSE Perms({e \in f : IsFile(e) /\ Lower(Ext(e)) \in supported_extensions})

IsWorker(t) == t \in Workers

\* Mutant: the wrap comes one pick early.
WrapsEarly(next_index, n) == next_index >= n - 1

\* next_wallpaper, line 127: the advanced cursor runs past the end.
Wraps(next_index, n) == next_index >= n

\* Mutant: the cursor is ignored.
ImageAtFirst(imgs, idx) == imgs[1]

\* self._images[self._index]: Python sequences count from 0.
ImageAt(imgs, idx) == imgs[idx + 1]

\* _next_wait: the waits the policy can yield.
NextWait(s) ==
    LET min_wait == Max(MinWait, s.random_min_seconds)
        max_wait == Max(min_wait, s.random_max_seconds)
    IN  IF s.random_mode THEN min_wait..max_wait
        ELSE {Max(MinWait, s.interval_seconds)}

\* Mutant: a join without timeout.
JoinBlocks(w) == tstate[w] = "dead"

\* Thread.join(timeout=2) returns once the thread has ended, or when the timeout
\* expires with the thread still alive.
JoinReturns(w) == tstate[w] = "dead" \/ tstate[w] = "alive"

\* Mutant: the worker goes round its loop without the countdown.
AfterPickNoWait(t) == IF IsWorker(t) THEN "run" ELSE "idle"

\* Where a thread goes when next_wallpaper returns.
AfterPick(t) == IF IsWorker(t) THEN "next_wait" ELSE "idle"

\* No _save is running: its locals do not exist.
NoDialog == [active |-> FALSE]

\* Nothing read yet.
NoneSeen == [random_mode |-> FALSE, interval_seconds |-> 0,
             random_min_seconds |-> 0, random_max_seconds |-> 0]

----------------------------------------------------------------------------
\* Initial state: WallpaperService.__init__

SettingsInit ==
    [random_mode: {FALSE}, interval_seconds: {3},
     random_min_seconds: {10}, random_max_seconds: {10}]

\* The fields other than the pool and the settings.
InitFields ==
    /\ lock = NoThread
    /\ stopEvent = FALSE
    /\ thread = NoThread
    /\ tstate = [w \in Workers |-> "free"]
    /\ pc = [t \in Threads |-> IF t \in Callers THEN "idle" ELSE "unborn"]
    /\ ret = [t \in Threads |-> "idle"]
    /\ ctx = [w \in Workers |-> "run"]
    /\ waitTime = [w \in Workers |-> 0]
    /\ elapsed = [w \in Workers |-> 0]
    /\ imagePath = [t \in Threads |-> NoImage]
    /\ screensaver = FALSE
    /\ wallpaper = NoImage
    /\ stopMark = [w \in Workers |-> "none"]
    /\ gateMark = [w \in Workers |-> "none"]
    /\ dialog = NoDialog
    /\ minWait = [w \in Workers |-> 0]
    /\ maxWait = [w \in Workers |-> 0]
    /\ seen = [w \in Workers |-> NoneSeen]
    /\ snaps = [w \in Workers |-> {}]
    /\ policies = {settings}
    /\ shown = <<>>
    /\ lastCycle = <<>>
    /\ recent = <<>>

\* The fields other than the pool, and the environment the service starts in.
InitRest ==
    /\ settings \in SettingsInit
    /\ InitFields

Init ==
    /\ folder \in SUBSET ImageIds
    /\ images = <<>>
    /\ index = 0
    /\ InitRest

----------------------------------------------------------------------------
\* refresh_images (lines 115-118)

CallRefresh(c) ==
    /\ pc[c] = "idle"
    /\ pc' = [pc EXCEPT ![c] = "rf_lock"]
    /\ ret' = [ret EXCEPT ![c] = "idle"]
    /\ UNCHANGED <<poolv, lock, lifev, workv, imagePath, envv, wallpaper, stopMark, gateMark,
                   hvars, polv>>

\* Mutant: refresh_images does not take the lock.
RfAcquireNoLock(t) ==
    /\ pc[t] = "rf_lock"
    /\ pc' = [pc EXCEPT ![t] = "rf_images"]
    /\ UNCHANGED <<poolv, lock, lifev, ret, workv, imagePath, envv, wallpaper, stopMark,
                   gateMark, hvars, polv>>

\* with self._lock: a threading.Lock, which its own holder cannot take again
RfAcquire(t) ==
    /\ pc[t] = "rf_lock"
    /\ lock = NoThread
    /\ lock' = t
    /\ pc' = [pc EXCEPT ![t] = "rf_images"]
    /\ UNCHANGED <<poolv, lifev, ret, workv, imagePath, envv, wallpaper, stopMark, gateMark,
                   hvars, polv>>

\* self._images = list(iter_images(self.settings.folder))
RfImagesStep(t) ==
    /\ pc[t] = "rf_images"
    /\ images' \in iter_images(folder)
    /\ pc' = [pc EXCEPT ![t] = "rf_index"]
    /\ UNCHANGED <<index, lock, lifev, ret, workv, imagePath, envv, wallpaper, stopMark,
                   gateMark, polv>>

RfImages(t) == RfImagesStep(t) /\ UNCHANGED hvars

\* Mutant: refresh_images leaves the cursor where it is.
RfIndexKeeps(t) ==
    /\ pc[t] = "rf_index"
    /\ lock' = NoThread
    /\ pc' = [pc EXCEPT ![t] = ret[t]]
    /\ UNCHANGED <<poolv, lifev, ret, workv, imagePath, envv, wallpaper, stopMark, gateMark,
                   hvars, polv>>

\* self._index = -1, and the end of the with block
RfIndex(t) ==
    /\ pc[t] = "rf_index"
    /\ index' = -1
    /\ lock' = NoThread
    /\ pc' = [pc EXCEPT ![t] = ret[t]]
    /\ UNCHANGED <<images, lifev, ret, workv, imagePath, envv, wallpaper, stopMark, gateMark,
                   hvars, polv>>

----------------------------------------------------------------------------
\* next_wallpaper (lines 120-133)

CallNext(c) ==
    /\ pc[c] = "idle"
    /\ pc' = [pc EXCEPT ![c] = "nw_lock"]
    /\ UNCHANGED <<poolv, lock, lifev, ret, workv, imagePath, envv, wallpaper, stopMark,
                   gateMark, hvars, polv>>

\* with self._lock:
NwAcquire(t) ==
    /\ pc[t] = "nw_lock"
    /\ lock = NoThread
    /\ lock' = t
    /\ pc' = [pc EXCEPT ![t] = "nw_check"]
    /\ UNCHANGED <<poolv, lifev, ret, workv, imagePath, envv, wallpaper, stopMark, gateMark,
                   hvars, polv>>

\* if not self._images: self.refresh_images()   (called with the lock held)
NwCheck(t) ==
    /\ pc[t] = "nw_check"
    /\ IF images = <<>>
       THEN /\ pc' = [pc EXCEPT ![t] = "rf_lock"]
            /\ ret' = [ret EXCEPT ![t] = "nw_advance"]
       ELSE /\ pc' = [pc EXCEPT ![t] = "nw_advance"]
            /\ ret' = ret
    /\ UNCHANGED <<poolv, lock, lifev, workv, imagePath, envv, wallpaper, stopMark, gateMark,
                   hvars, polv>>

\* Mutant: the cursor advances by two.
NwAdvanceSkips(t) ==
    /\ pc[t] = "nw_advance"
    /\ IF images = <<>>
       THEN /\ lock' = NoThread
            /\ pc' = [pc EXCEPT ![t] = AfterPick(t)]
            /\ UNCHANGED poolv
       ELSE /\ LET next_index == index + 2
               IN  IF Wraps(next_index, Len(images))
                   THEN /\ images' \in Shuffle(images)
                        /\ index' = 0
                   ELSE /\ images' = images
                        /\ index' = next_index
            /\ pc' = [pc EXCEPT ![t] = "nw_read"]
            /\ lock' = lock
    /\ UNCHANGED <<lifev, ret, workv, imagePath, envv, wallpaper, stopMark, gateMark, polv>>

\* if not self._images: return; next_index = self._index + 1; shuffle and 0, or
\* next_index
NwAdvanceStep(t) ==
    /\ pc[t] = "nw_advance"
    /\ IF images = <<>>
       THEN /\ lock' = NoThread
            /\ pc' = [pc EXCEPT ![t] = AfterPick(t)]
            /\ UNCHANGED poolv
       ELSE /\ LET next_index == index + 1
               IN  IF Wraps(next_index, Len(images))
                   THEN /\ images' \in Shuffle(images)
                        /\ index' = 0
                   ELSE /\ images' = images
                        /\ index' = next_index
            /\ pc' = [pc EXCEPT ![t] = "nw_read"]
            /\ lock' = lock
    /\ UNCHANGED <<lifev, ret, workv, imagePath, envv, wallpaper, stopMark, gateMark, polv>>

NwAdvance(t) == NwAdvanceStep(t) /\ UNCHANGED hvars

\* Mutant: set_wallpaper is called inside the with block.
NwReadKeepsLock(t) ==
    /\ pc[t] = "nw_read"
    /\ index + 1 \in DOMAIN images
    /\ imagePath' = [imagePath EXCEPT ![t] = ImageAt(images, index)]
    /\ pc' = [pc EXCEPT ![t] = "nw_apply"]
    /\ UNCHANGED <<poolv, lock, lifev, ret, workv, envv, wallpaper, stopMark, gateMark, polv>>

\* image_path = self._images[self._index], and the end of the with block
NwReadStep(t) ==
    /\ pc[t] = "nw_read"
    /\ index + 1 \in DOMAIN images
    /\ imagePath' = [imagePath EXCEPT ![t] = ImageAt(images, index)]
    /\ lock' = NoThread
    /\ pc' = [pc EXCEPT ![t] = "nw_apply"]
    /\ UNCHANGED <<poolv, lifev, ret, workv, envv, wallpaper, stopMark, gateMark, polv>>

NwRead(t) == NwReadStep(t) /\ UNCHANGED hvars

\* set_wallpaper(image_path, ...), outside the lock; _write_shared_wallpaper
\* writes randombg_wallpaper.png into the folder of the image.
NwApplyCopies(t) ==
    /\ pc[t] = "nw_apply"
    /\ wallpaper' = imagePath[t]
    /\ folder' = folder \cup {SharedCopy}
    /\ imagePath' = [imagePath EXCEPT ![t] = NoImage]
    /\ pc' = [pc EXCEPT ![t] = AfterPick(t)]
    /\ UNCHANGED <<poolv, lock, lifev, ret, workv, settings, screensaver, stopMark, gateMark,
                   hvars, polv>>

\* set_wallpaper(image_path, ...), outside the lock, on a folder that cannot be
\* written: _write_shared_wallpaper returns None and the folder stays as it is.
NwApply(t) ==
    /\ pc[t] = "nw_apply"
    /\ wallpaper' = imagePath[t]
    /\ imagePath' = [imagePath EXCEPT ![t] = NoImage]
    /\ pc' = [pc EXCEPT ![t] = AfterPick(t)]
    /\ UNCHANGED <<poolv, lock, lifev, ret, workv, envv, stopMark, gateMark, hvars, polv>>

\* set_wallpaper returns although the platform call failed: subprocess.run with
\* check=False ignores the exit status of gsettings or osascript, and
\* SystemParametersInfoW reports failure by its result, which is not read.
NwApplyFails(t) ==
    /\ pc[t] = "nw_apply"
    /\ imagePath' = [imagePath EXCEPT ![t] = NoImage]
    /\ pc' = [pc EXCEPT ![t] = AfterPick(t)]
    /\ UNCHANGED <<poolv, lock, lifev, ret, workv, envv, wallpaper, stopMark, gateMark, hvars,
                   polv>>

\* set_wallpaper raises: subprocess.run raises FileNotFoundError (an OSError) when
\* the gsettings or osascript executable is missing, and neither set_wallpaper nor
\* next_wallpaper nor _run catches it.  In a worker the exception ends the
\* thread; in a client thread it leaves next_wallpaper towards the caller.
NwApplyRaises(t) ==
    /\ pc[t] = "nw_apply"
    /\ imagePath' = [imagePath EXCEPT ![t] = NoImage]
    /\ IF IsWorker(t)
       THEN /\ tstate' = [tstate EXCEPT ![t] = "dead"]
            /\ pc' = [pc EXCEPT ![t] = "crashed"]
            /\ stopMark' = [stopMark EXCEPT ![t] = "none"]
            /\ gateMark' = [gateMark EXCEPT ![t] = "none"]
       ELSE /\ pc' = [pc EXCEPT ![t] = "raised"]
            /\ UNCHANGED <<tstate, stopMark, gateMark>>
    /\ UNCHANGED <<poolv, lock, stopEvent, thread, ret, workv, envv, wallpaper, hvars, polv>>

\* The exception reaches the menu callback of the tray (on_next), which ends.
Unwinds(c) ==
    /\ pc[c] = "raised"
    /\ pc' = [pc EXCEPT ![c] = "idle"]
    /\ UNCHANGED <<poolv, lock, lifev, ret, workv, imagePath, envv, wallpaper, stopMark,
                   gateMark, hvars, polv>>

----------------------------------------------------------------------------
\* start (lines 103-108)

\* Thread objects not yet created, and the start() calls that will create one.
FreeWorkers == {w \in Workers : tstate[w] = "free"}
Starting == {c \in Callers : pc[c] \in {"s_clear", "s_create"}}

\* self._thread and self._thread.is_alive()
Running == thread # NoThread /\ tstate[thread] = "alive"

\* start() while the worker is alive: line 105 returns.
CallStartAlive(c) ==
    /\ pc[c] = "idle"
    /\ Running
    /\ pc' = [pc EXCEPT ![c] = "s_return"]
    /\ UNCHANGED <<poolv, lock, lifev, ret, workv, imagePath, envv, wallpaper, stopMark,
                   gateMark, hvars, polv>>

StartReturn(c) ==
    /\ pc[c] = "s_return"
    /\ pc' = [pc EXCEPT ![c] = "idle"]
    /\ UNCHANGED <<poolv, lock, lifev, ret, workv, imagePath, envv, wallpaper, stopMark,
                   gateMark, hvars, polv>>

\* Mutant: start() without the check of line 104.
CallStartUnchecked(c) ==
    /\ pc[c] = "idle"
    /\ Cardinality(Starting) < Cardinality(FreeWorkers)
    /\ pc' = [pc EXCEPT ![c] = "s_clear"]
    /\ UNCHANGED <<poolv, lock, lifev, ret, workv, imagePath, envv, wallpaper, stopMark,
                   gateMark, hvars, polv>>

\* if self._thread and self._thread.is_alive(): return
CallStart(c) ==
    /\ pc[c] = "idle"
    /\ Cardinality(Starting) < Cardinality(FreeWorkers)
    /\ ~(thread # NoThread /\ tstate[thread] = "alive")
    /\ pc' = [pc EXCEPT ![c] = "s_clear"]
    /\ UNCHANGED <<poolv, lock, lifev, ret, workv, imagePath, envv, wallpaper, stopMark,
                   gateMark, hvars, polv>>

\* self._stop_event.clear()
StartClear(c) ==
    /\ pc[c] = "s_clear"
    /\ stopEvent' = FALSE
    /\ pc' = [pc EXCEPT ![c] = "s_create"]
    /\ UNCHANGED <<poolv, lock, thread, tstate, ret, workv, imagePath, envv, wallpaper,
                   stopMark, gateMark, hvars, polv>>

\* self._thread = threading.Thread(target=self._run, daemon=True)
StartCreate(c) ==
    /\ pc[c] = "s_create"
    /\ FreeWorkers # {}
    /\ LET w == CHOOSE x \in FreeWorkers : \A y \in FreeWorkers : x <= y
       IN  /\ tstate' = [tstate EXCEPT ![w] = "created"]
           /\ thread' = w
    /\ pc' = [pc EXCEPT ![c] = "s_start"]
    /\ UNCHANGED <<poolv, lock, stopEvent, ret, workv, imagePath, envv, wallpaper, stopMark,
                   gateMark, hvars, polv>>

\* self._thread.start(): starts the Thread that self._thread names now; a Thread
\* that was started already raises RuntimeError
StartLaunch(c) ==
    /\ pc[c] = "s_start"
    /\ IF tstate[thread] = "created"
       THEN /\ tstate' = [tstate EXCEPT ![thread] = "alive"]
            /\ pc' = [pc EXCEPT ![c] = "idle", ![thread] = "run"]
       ELSE /\ tstate' = tstate
            /\ pc' = [pc EXCEPT ![c] = "idle"]
    /\ UNCHANGED <<poolv, lock, stopEvent, thread, ret, workv, imagePath, envv, wallpaper,
                   stopMark, gateMark, hvars, polv>>

----------------------------------------------------------------------------
\* stop (lines 110-113)

\* stop() while self._thread is None: the if of line 111 fails and stop() returns.
CallStopNoThread(c) ==
    /\ pc[c] = "idle"
    /\ thread = NoThread
    /\ pc' = [pc EXCEPT ![c] = "p_return"]
    /\ UNCHANGED <<poolv, lock, lifev, ret, workv, imagePath, envv, wallpaper, stopMark,
                   gateMark, hvars, polv>>

StopReturn(c) ==
    /\ pc[c] = "p_return"
    /\ pc' = [pc EXCEPT ![c] = "idle"]
    /\ UNCHANGED <<poolv, lock, lifev, ret, workv, imagePath, envv, wallpaper, stopMark,
                   gateMark, hvars, polv>>

\* if self._thread:
CallStop(c) ==
    /\ pc[c] = "idle"
    /\ thread # NoThread
    /\ pc' = [pc EXCEPT ![c] = "p_set"]
    /\ UNCHANGED <<poolv, lock, lifev, ret, workv, imagePath, envv, wallpaper, stopMark,
                   gateMark, hvars, polv>>

\* Where a worker is in _run: in its countdown (the gated pauses of the countdown
\* included), in the gate check (blocked in a gating slice, or probing), or
\* elsewhere.
Phase(w) ==
    IF pc[w] \in {"wwp_loop", "wwp_wait", "wwp_sleep"} THEN "wait"
    ELSE IF pc[w] \in {"wfs_probe", "wfs_wait", "wfs_sleep"} /\ ctx[w] = "wwp" THEN "wait"
    ELSE IF pc[w] = "wfs_sleep" THEN "gate_sleep"
    ELSE IF pc[w] \in {"wfs_probe", "wfs_wait"} THEN "gate_probe"
    ELSE "other"

\* self._stop_event.set(): sets the flag and wakes every thread blocked in wait()
StopSet(c) ==
    /\ pc[c] = "p_set"
    /\ stopEvent' = TRUE
    /\ pc' = [t \in Threads |->
                IF t = c THEN "p_join"
                ELSE IF pc[t] \in {"wfs_sleep", "wwp_sleep"} THEN "woken"
                ELSE pc[t]]
    /\ stopMark' = [w \in Workers |->
                      IF tstate[w] = "alive" /\ stopMark[w] = "none" /\ Phase(w) # "other"
                      THEN Phase(w) ELSE stopMark[w]]
    /\ UNCHANGED <<poolv, lock, thread, tstate, ret, workv, imagePath, envv, wallpaper,
                   gateMark, hvars, polv>>

\* self._thread.join(timeout=2); joining a Thread that was never started raises
\* RuntimeError at once
StopJoin(c) ==
    /\ pc[c] = "p_join"
    /\ tstate[thread] = "created" \/ JoinReturns(thread)
    /\ pc' = [pc EXCEPT ![c] = "idle"]
    /\ UNCHANGED <<poolv, lock, lifev, ret, workv, imagePath, envv, wallpaper, stopMark,
                   gateMark, hvars, polv>>

----------------------------------------------------------------------------
\* The worker: _run, _wait_for_screensaver, _next_wait, _wait_with_pause

\* The thread's target returns: the thread ends and its frames are gone.
Exits(w) ==
    /\ tstate' = [tstate EXCEPT ![w] = "dead"]
    /\ pc' = [pc EXCEPT ![w] = "done"]
    /\ ctx' = [ctx EXCEPT ![w] = "run"]
    /\ waitTime' = [waitTime EXCEPT ![w] = 0]
    /\ elapsed' = [elapsed EXCEPT ![w] = 0]
    /\ stopMark' = [stopMark EXCEPT ![w] = "none"]
    /\ gateMark' = [gateMark EXCEPT ![w] = "none"]

\* The thread goes on to line p.
Goes(w, p) ==
    /\ pc' = [pc EXCEPT ![w] = p]
    /\ UNCHANGED <<tstate, ctx, waitTime, elapsed, stopMark, gateMark>>

\* Mutant: _run without its gate check.
RunNoGate(w) ==
    /\ pc[w] = "run"
    /\ IF stopEvent THEN Exits(w) ELSE Goes(w, "nw_lock")
    /\ UNCHANGED <<poolv, lock, stopEvent, thread, ret, imagePath, envv, wallpaper, hvars,
                   polv>>

\* _run: while not self._stop_event.is_set(): if self._wait_for_screensaver(): ...
Run(w) ==
    /\ pc[w] = "run"
    /\ IF stopEvent
       THEN Exits(w)
       ELSE /\ pc' = [pc EXCEPT ![w] = "wfs_probe"]
            /\ ctx' = [ctx EXCEPT ![w] = "run"]
            /\ UNCHANGED <<tstate, waitTime, elapsed, stopMark, gateMark>>
    /\ UNCHANGED <<poolv, lock, stopEvent, thread, ret, imagePath, envv, wallpaper, hvars,
                   polv>>

\* Mutant: the countdown starts again after a gated pause.
WfsProbeRestarts(w) ==
    /\ pc[w] = "wfs_probe"
    /\ IF screensaver THEN Goes(w, "wfs_wait")
       ELSE IF ctx[w] = "run" THEN Goes(w, "nw_lock")
       ELSE /\ pc' = [pc EXCEPT ![w] = "wwp_loop"]
            /\ elapsed' = [elapsed EXCEPT ![w] = 0]
            /\ UNCHANGED <<tstate, ctx, waitTime, stopMark, gateMark>>
    /\ UNCHANGED <<poolv, lock, stopEvent, thread, ret, imagePath, envv, wallpaper, hvars,
                   polv>>

\* _wait_for_screensaver: while screensaver_active(): ...; return False
\* (to next_wallpaper in _run, to the continue in _wait_with_pause)
WfsProbe(w) ==
    /\ pc[w] = "wfs_probe"
    /\ IF screensaver THEN Goes(w, "wfs_wait")
       ELSE IF ctx[w] = "run" THEN Goes(w, "nw_lock")
       ELSE Goes(w, "wwp_loop")
    /\ UNCHANGED <<poolv, lock, stopEvent, thread, ret, imagePath, envv, wallpaper, hvars,
                   polv>>

\* if self._stop_event.wait(5): return True -- the flag is set already, or the
\* thread blocks
WfsWait(w) ==
    /\ pc[w] = "wfs_wait"
    /\ IF stopEvent THEN Exits(w) ELSE Goes(w, "wfs_sleep")
    /\ UNCHANGED <<poolv, lock, stopEvent, thread, ret, imagePath, envv, wallpaper, hvars,
                   polv>>

\* wait(5) times out: back to the probe
WfsTimeout(w) ==
    /\ pc[w] = "wfs_sleep"
    /\ Goes(w, "wfs_probe")
    /\ UNCHANGED <<poolv, lock, stopEvent, thread, ret, imagePath, envv, wallpaper, hvars,
                   polv>>

\* Mutant: the result of wait() is ignored.
WokenIgnored(w) ==
    /\ pc[w] = "woken"
    /\ Goes(w, IF ctx[w] = "run" THEN "wfs_probe" ELSE "wwp_loop")
    /\ UNCHANGED <<poolv, lock, stopEvent, thread, ret, imagePath, envv, wallpaper, hvars,
                   polv>>

\* A wait() that set() woke returns True: _wait_for_screensaver or
\* _wait_with_pause returns True and _run breaks.
Woken(w) ==
    /\ pc[w] = "woken"
    /\ Exits(w)
    /\ UNCHANGED <<poolv, lock, stopEvent, thread, ret, imagePath, envv, wallpaper, hvars,
                   polv>>

\* wait_time = self._next_wait(); elapsed = 0.0
NextWaitStep(w) ==
    /\ pc[w] = "next_wait"
    /\ \E wt \in NextWait(settings) : waitTime' = [waitTime EXCEPT ![w] = wt]
    /\ elapsed' = [elapsed EXCEPT ![w] = 0]
    /\ pc' = [pc EXCEPT ![w] = "wwp_loop"]
    /\ gateMark' = [gateMark EXCEPT ![w] = "none"]
    /\ UNCHANGED <<poolv, lock, lifev, ret, ctx, imagePath, envv, wallpaper, stopMark, hvars,
                   polv>>

\* Mutant: the loop condition computes the wait again on every pass.
WwpLoopRereads(w) ==
    /\ pc[w] = "wwp_loop"
    /\ IF elapsed[w] >= waitTime[w]
       THEN /\ pc' = [pc EXCEPT ![w] = "run"]
            /\ waitTime' = [waitTime EXCEPT ![w] = 0]
            /\ elapsed' = [elapsed EXCEPT ![w] = 0]
            /\ ctx' = ctx
       ELSE /\ \E wt \in NextWait(settings) : waitTime' = [waitTime EXCEPT ![w] = wt]
            /\ elapsed' = elapsed
            /\ IF screensaver
               THEN /\ pc' = [pc EXCEPT ![w] = "wfs_probe"]
                    /\ ctx' = [ctx EXCEPT ![w] = "wwp"]
               ELSE /\ pc' = [pc EXCEPT ![w] = "wwp_wait"]
                    /\ ctx' = ctx
    /\ UNCHANGED <<poolv, lock, lifev, ret, imagePath, envv, wallpaper, stopMark, gateMark,
                   hvars, polv>>

\* while elapsed < wait_time: if screensaver_active(): ... ; return False
WwpLoop(w) ==
    /\ pc[w] = "wwp_loop"
    /\ IF elapsed[w] >= waitTime[w]
       THEN /\ pc' = [pc EXCEPT ![w] = "run"]
            /\ waitTime' = [waitTime EXCEPT ![w] = 0]
            /\ elapsed' = [elapsed EXCEPT ![w] = 0]
            /\ ctx' = ctx
       ELSE IF screensaver
            THEN /\ pc' = [pc EXCEPT ![w] = "wfs_probe"]
                 /\ ctx' = [ctx EXCEPT ![w] = "wwp"]
                 /\ UNCHANGED <<waitTime, elapsed>>
            ELSE /\ pc' = [pc EXCEPT ![w] = "wwp_wait"]
                 /\ UNCHANGED <<ctx, waitTime, elapsed>>
    /\ UNCHANGED <<poolv, lock, lifev, ret, imagePath, envv, wallpaper, stopMark, gateMark,
                   hvars, polv>>

\* remaining = min(step, wait_time - elapsed); if self._stop_event.wait(remaining)
WwpWait(w) ==
    /\ pc[w] = "wwp_wait"
    /\ IF stopEvent THEN Exits(w) ELSE Goes(w, "wwp_sleep")
    /\ UNCHANGED <<poolv, lock, stopEvent, thread, ret, imagePath, envv, wallpaper, hvars,
                   polv>>

\* wait(remaining) times out: elapsed += remaining
WwpTimeout(w) ==
    /\ pc[w] = "wwp_sleep"
    /\ elapsed' = [elapsed EXCEPT ![w] = elapsed[w] + Min(Step, waitTime[w] - elapsed[w])]
    /\ pc' = [pc EXCEPT ![w] = "wwp_loop"]
    /\ UNCHANGED <<poolv, lock, lifev, ret, ctx, waitTime, imagePath, envv, wallpaper,
                   stopMark, gateMark, hvars, polv>>

----------------------------------------------------------------------------
\* The environment: the screensaver starts or ends.
ScreensaverToggleStep ==
    /\ screensaver' = ~screensaver
    /\ UNCHANGED <<poolv, lock, lifev, pc, ret, workv, imagePath, settings, folder, wallpaper,
                   stopMark, hvars, polv>>

ScreensaverToggle == ScreensaverToggleStep /\ UNCHANGED gateMark

\* The steps of the code that any thread inside the service takes.
PoolStep(t) ==
    \/ RfAcquire(t)
    \/ RfImages(t)
    \/ RfIndex(t)
    \/ NwAcquire(t)
    \/ NwCheck(t)
    \/ NwAdvance(t)
    \/ NwRead(t)
    \/ NwApply(t)

\* The platform wallpaper call fails.
SinkFailure(t) ==
    \/ NwApplyFails(t)
    \/ NwApplyRaises(t)
    \/ Unwinds(t)

StartStep(c) ==
    \/ StartClear(c)
    \/ StartCreate(c)
    \/ StartLaunch(c)

StopStep(c) ==
    \/ CallStop(c)
    \/ StopSet(c)
    \/ StopJoin(c)

WorkerStep(w) ==
    \/ Run(w)
    \/ WfsProbe(w)
    \/ WfsWait(w)
    \/ WfsTimeout(w)
    \/ Woken(w)
    \/ NextWaitStep(w)
    \/ WwpLoop(w)
    \/ WwpWait(w)
    \/ WwpTimeout(w)

----------------------------------------------------------------------------
\* Spec: the service as run_tray drives it.  The main thread calls
\* refresh_images (lines 334, 315), start (335) and stop (365); the tray thread
\* calls next_wallpaper (345) and stop (348).
Next ==
    \/ CallRefresh(MainThread)
    \/ CallStart(MainThread)
    \/ StartStep(MainThread)
    \/ CallNext(TrayThread)
    \/ \E c \in Callers : StopStep(c)
    \/ \E t \in Threads : PoolStep(t)
    \/ \E t \in Threads : SinkFailure(t)
    \/ \E w \in Workers : WorkerStep(w)
    \/ ScreensaverToggle

Spec == Init /\ [][Next]_vars

----------------------------------------------------------------------------
\* LifeSpec: start and stop called by both clients in any interleaving, from the
\* state in which run_tray calls start(): after its refresh_images() (line 334),
\* on an empty folder or on a folder of one image.
LifeInit ==
    /\ folder \in {{}, {1}}
    /\ images \in iter_images(folder)
    /\ index = -1
    /\ InitRest

PickStep(t) ==
    \/ NwAcquire(t)
    \/ NwCheck(t)
    \/ NwAdvance(t)
    \/ NwRead(t)
    \/ NwApply(t)

LifeNext ==
    \/ \E c \in Callers : CallStart(c)
    \/ \E c \in Callers : StartStep(c)
    \/ \E c \in Callers : StopStep(c)
    \/ \E w \in Workers : PickStep(w)
    \/ \E w \in Workers : WorkerStep(w)
    \/ ScreensaverToggle

LifeSpec == LifeInit /\ [][LifeNext]_vars

----------------------------------------------------------------------------
\* _next_wait (lines 135-141), one step per line: each line reads a field of
\* self.settings, which SettingsWindow._save assigns without any lock.

\* Mutant: no lower limit.
ClampNone(v) == v

\* max(10, int(...)) of lines 136 and 141
ClampMin(v) == Max(MinWait, v)

\* Mutant: the upper end is left out, as random.randrange would.
RandRange(a, b) == a..(b - 1)

\* random.randint(a, b): any integer of a..b
RandInt(a, b) == a..b

\* Mutant: the fixed wait is taken from the random minimum.
FixedWaitFromMin(w, s) == minWait[w]

\* return max(10, int(self.settings.interval_seconds))
FixedWait(w, s) == ClampMin(s.interval_seconds)

\* The threads that are inside _next_wait.
Computing == {w \in Workers : pc[w] \in {"nwt_max", "nwt_mode", "nwt_rand", "nwt_fixed"}}

\* min_wait = max(10, int(self.settings.random_min_seconds))
NwtMin(w) ==
    /\ pc[w] = "next_wait"
    /\ minWait' = [minWait EXCEPT ![w] = ClampMin(settings.random_min_seconds)]
    /\ seen' = [seen EXCEPT ![w] =
                    [NoneSeen EXCEPT !.random_min_seconds = settings.random_min_seconds]]
    /\ snaps' = [snaps EXCEPT ![w] = policies]
    /\ pc' = [pc EXCEPT ![w] = "nwt_max"]
    /\ UNCHANGED <<poolv, lock, lifev, ret, workv, imagePath, envv, wallpaper, stopMark,
                   gateMark, hvars, dialog, maxWait, policies>>

\* max_wait = max(min_wait, int(self.settings.random_max_seconds))
NwtMax(w) ==
    /\ pc[w] = "nwt_max"
    /\ maxWait' = [maxWait EXCEPT ![w] = Max(minWait[w], settings.random_max_seconds)]
    /\ seen' = [seen EXCEPT ![w].random_max_seconds = settings.random_max_seconds]
    /\ pc' = [pc EXCEPT ![w] = "nwt_mode"]
    /\ UNCHANGED <<poolv, lock, lifev, ret, workv, imagePath, envv, wallpaper, stopMark,
                   gateMark, hvars, dialog, minWait, snaps, policies>>

\* if self.settings.random_mode:
NwtMode(w) ==
    /\ pc[w] = "nwt_mode"
    /\ seen' = [seen EXCEPT ![w].random_mode = settings.random_mode]
    /\ pc' = [pc EXCEPT ![w] = IF settings.random_mode THEN "nwt_rand" ELSE "nwt_fixed"]
    /\ UNCHANGED <<poolv, lock, lifev, ret, workv, imagePath, envv, wallpaper, stopMark,
                   gateMark, hvars, dialog, minWait, maxWait, snaps, policies>>

\* return random.randint(min_wait, max_wait)
NwtRand(w) ==
    /\ pc[w] = "nwt_rand"
    /\ \E wt \in RandInt(minWait[w], maxWait[w]) : waitTime' = [waitTime EXCEPT ![w] = wt]
    /\ pc' = [pc EXCEPT ![w] = "nwt_ret"]
    /\ UNCHANGED <<poolv, lock, lifev, ret, ctx, elapsed, imagePath, envv, wallpaper, stopMark,
                   gateMark, hvars, polv>>

\* return max(10, int(self.settings.interval_seconds))
NwtFixed(w) ==
    /\ pc[w] = "nwt_fixed"
    /\ waitTime' = [waitTime EXCEPT ![w] = FixedWait(w, settings)]
    /\ seen' = [seen EXCEPT ![w].interval_seconds = settings.interval_seconds]
    /\ pc' = [pc EXCEPT ![w] = "nwt_ret"]
    /\ UNCHANGED <<poolv, lock, lifev, ret, ctx, elapsed, imagePath, envv, wallpaper, stopMark,
                   gateMark, hvars, dialog, minWait, maxWait, snaps, policies>>

\* _next_wait has returned: wait_time is assigned, _wait_with_pause begins with
\* elapsed = 0.0, and the frame of _next_wait is gone
NwtReturn(w) ==
    /\ pc[w] = "nwt_ret"
    /\ elapsed' = [elapsed EXCEPT ![w] = 0]
    /\ minWait' = [minWait EXCEPT ![w] = 0]
    /\ maxWait' = [maxWait EXCEPT ![w] = 0]
    /\ seen' = [seen EXCEPT ![w] = NoneSeen]
    /\ snaps' = [snaps EXCEPT ![w] = {}]
    /\ pc' = [pc EXCEPT ![w] = "wwp_loop"]
    /\ UNCHANGED <<poolv, lock, lifev, ret, ctx, waitTime, imagePath, envv, wallpaper,
                   stopMark, gateMark, hvars, dialog, policies>>

----------------------------------------------------------------------------
\* SettingsWindow._save (lines 264-318), run by the Tk main thread

\* What the entry fields of the dialog can hold, and the directories it can name.
EntryValues == {LowValue, MinWait}
DialogInputs ==
    [random_mode : BOOLEAN, random_min : EntryValues, random_max : EntryValues,
     interval : EntryValues, folder_ok : BOOLEAN]

\* The policy a settings record holds.
PolicyOf(mode, interval, mn, mx) ==
    [random_mode |-> mode, interval_seconds |-> interval,
     random_min_seconds |-> mn, random_max_seconds |-> mx]

\* The policy _save is about to assign.
Target == PolicyOf(dialog.random_mode, dialog.interval, dialog.random_min, dialog.random_max)

\* The user presses the save button: lines 265-268 read the entry fields.
\* (before: history, the settings as the call found them.)
CallSave(c) ==
    /\ pc[c] = "idle"
    /\ \E d \in DialogInputs :
          dialog' = [active |-> TRUE, random_mode |-> d.random_mode,
                     random_min |-> d.random_min, random_max |-> d.random_max,
                     interval |-> d.interval, folder_ok |-> d.folder_ok,
                     before |-> settings]
    /\ pc' = [pc EXCEPT ![c] = "sv_validate"]
    /\ UNCHANGED <<poolv, lock, lifev, ret, workv, imagePath, envv, wallpaper, stopMark,
                   gateMark, hvars, minWait, maxWait, seen, snaps, policies>>

\* Lines 273-293: the checks, each ending _save with an error box.  In random
\* mode the interval entry is not read: interval stays settings.interval_seconds.
SaveAccepts ==
    /\ dialog.random_min >= MinWait
    /\ dialog.random_max >= MinWait
    /\ dialog.random_max >= dialog.random_min
    /\ dialog.random_mode \/ dialog.interval >= MinWait
    /\ dialog.folder_ok

SvValidate(c) ==
    /\ pc[c] = "sv_validate"
    /\ IF SaveAccepts
       THEN /\ dialog' = [dialog EXCEPT !.interval =
                            IF dialog.random_mode THEN settings.interval_seconds
                            ELSE dialog.interval]
            /\ pc' = [pc EXCEPT ![c] = "sv_interval"]
       ELSE /\ dialog' = dialog
            /\ pc' = [pc EXCEPT ![c] = "sv_error"]
    /\ UNCHANGED <<poolv, lock, lifev, ret, workv, imagePath, envv, wallpaper, stopMark,
                   gateMark, hvars, minWait, maxWait, seen, snaps, policies>>

\* An assignment to a field of self.settings; the workers inside _next_wait have
\* now run under every policy in effect.
Assigns(c, s, p, ps) ==
    /\ settings' = s
    /\ policies' = ps
    /\ snaps' = [w \in Workers |-> IF w \in Computing THEN snaps[w] \cup ps ELSE snaps[w]]
    /\ pc' = [pc EXCEPT ![c] = p]
    /\ UNCHANGED <<poolv, lock, lifev, ret, workv, imagePath, folder, screensaver, wallpaper,
                   stopMark, gateMark, hvars, dialog, minWait, maxWait, seen>>

\* self.settings.interval_seconds = interval
SvInterval(c) ==
    /\ pc[c] = "sv_interval"
    /\ Assigns(c, [settings EXCEPT !.interval_seconds = dialog.interval], "sv_mode",
               {settings, Target})

\* self.settings.random_mode = random_mode
SvMode(c) ==
    /\ pc[c] = "sv_mode"
    /\ Assigns(c, [settings EXCEPT !.random_mode = dialog.random_mode], "sv_min", policies)

\* self.settings.random_min_seconds = random_min
SvMin(c) ==
    /\ pc[c] = "sv_min"
    /\ Assigns(c, [settings EXCEPT !.random_min_seconds = dialog.random_min], "sv_max",
               policies)

\* self.settings.random_max_seconds = random_max; self.settings.folder = folder
SvMax(c) ==
    /\ pc[c] = "sv_max"
    /\ Assigns(c, [settings EXCEPT !.random_max_seconds = dialog.random_max], "sv_autostart",
               {Target})

\* Lines 300-311: the autostart entry is installed or removed; on AutostartError
\* _save shows the error and returns.
SvAutostart(c) ==
    /\ pc[c] = "sv_autostart"
    /\ \/ /\ pc' = [pc EXCEPT ![c] = "sv_persist"]
          /\ dialog' = dialog
       \/ /\ pc' = [pc EXCEPT ![c] = "sv_error"]
          /\ dialog' = dialog
    /\ UNCHANGED <<poolv, lock, lifev, ret, workv, imagePath, envv, wallpaper, stopMark,
                   gateMark, hvars, minWait, maxWait, seen, snaps, policies>>

\* messagebox.showerror(...); return: the user closes the error box and _save
\* ends.
SvError(c) ==
    /\ pc[c] = "sv_error"
    /\ dialog' = NoDialog
    /\ pc' = [pc EXCEPT ![c] = "idle"]
    /\ UNCHANGED <<poolv, lock, lifev, ret, workv, imagePath, envv, wallpaper, stopMark,
                   gateMark, hvars, minWait, maxWait, seen, snaps, policies>>

\* self.settings.save() writes the file (an OSError leaves _save), then
\* self.service.refresh_images()
SvPersist(c) ==
    /\ pc[c] = "sv_persist"
    /\ dialog' = NoDialog
    /\ \/ /\ pc' = [pc EXCEPT ![c] = "rf_lock"]
          /\ ret' = [ret EXCEPT ![c] = "idle"]
       \/ /\ pc' = [pc EXCEPT ![c] = "idle"]
          /\ ret' = ret
    /\ UNCHANGED <<poolv, lock, lifev, workv, imagePath, envv, wallpaper, stopMark,
                   gateMark, hvars, minWait, maxWait, seen, snaps, policies>>

SaveStep(c) ==
    \/ SvValidate(c)
    \/ SvInterval(c)
    \/ SvMode(c)
    \/ SvMin(c)
    \/ SvMax(c)
    \/ SvAutostart(c)
    \/ SvError(c)
    \/ SvPersist(c)

\* PolicySpec: the service after Settings.load (lines 58-78), which takes every
\* integer the file holds, and run_tray's refresh_images() on a folder of one
\* image; the main thread starts the worker and saves settings from the dialog.
FileValues == {LowValue, HighValue}

PolicyInit ==
    /\ folder = {1}
    /\ images \in iter_images(folder)
    /\ index = -1
    /\ settings \in [random_mode : BOOLEAN, interval_seconds : FileValues,
                      random_min_seconds : FileValues, random_max_seconds : FileValues]
    /\ InitFields

PolicyNext ==
    \/ CallStart(MainThread)
    \/ StartStep(MainThread)
    \/ CallSave(MainThread)
    \/ SaveStep(MainThread)
    \/ RfAcquire(MainThread)
    \/ RfImages(MainThread)
    \/ RfIndex(MainThread)
    \/ \E w \in Workers :
        \/ PickStep(w)
        \/ Run(w)
        \/ WfsProbe(w)
        \/ NwtMin(w)
        \/ NwtMax(w)
        \/ NwtMode(w)
        \/ NwtRand(w)
        \/ NwtFixed(w)
        \/ NwtReturn(w)
        \/ WwpLoop(w)
        \/ WwpWait(w)
        \/ WwpTimeout(w)

PolicySpec == PolicyInit /\ [][PolicyNext]_vars

----------------------------------------------------------------------------
\* GateSpec: one client starts and stops the service on a folder of one image
\* while the screensaver comes and goes; gateMark records, per worker, that the
\* screensaver started during its countdown ("active") and that it ended again
\* before the countdown was over ("cleared").
GateInit ==
    /\ folder = {1}
    /\ images \in iter_images(folder)
    /\ index = -1
    /\ InitRest

ScreensaverToggleRec ==
    /\ ScreensaverToggleStep
    /\ gateMark' = [w \in Workers |->
                      IF screensaver
                      THEN (IF gateMark[w] = "active" THEN "cleared" ELSE gateMark[w])
                      ELSE (IF tstate[w] = "alive" /\ Phase(w) = "wait" THEN "active"
                            ELSE gateMark[w])]

\* The calls that find nothing to do.
NoOpStep(c) ==
    \/ CallStartAlive(c)
    \/ StartReturn(c)
    \/ CallStopNoThread(c)
    \/ StopReturn(c)

GateNext ==
    \/ CallStart(MainThread)
    \/ StartStep(MainThread)
    \/ StopStep(MainThread)
    \/ NoOpStep(MainThread)
    \/ \E w \in Workers : PickStep(w)
    \/ \E w \in Workers : WorkerStep(w)
    \/ ScreensaverToggleRec

GateSpec == GateInit /\ [][GateNext]_vars

----------------------------------------------------------------------------
\* ProbeSpec: GateSpec with a probe that can fail.

\* A worker about to call screensaver_active(): in _wait_for_screensaver or in
\* the loop of _wait_with_pause.
Probing(w) ==
    \/ pc[w] = "wfs_probe"
    \/ pc[w] = "wwp_loop" /\ elapsed[w] < waitTime[w]

\* The probe fails and reports False: shutil.which finds no command, or
\* subprocess.run raises an exception that the probe catches.
ProbeCaught(w) ==
    /\ Probing(w)
    /\ IF pc[w] = "wwp_loop" THEN Goes(w, "wwp_wait")
       ELSE IF ctx[w] = "run" THEN Goes(w, "nw_lock")
       ELSE Goes(w, "wwp_loop")
    /\ UNCHANGED <<poolv, lock, stopEvent, thread, ret, imagePath, envv, wallpaper, hvars,
                   polv>>

\* The probe fails with an exception it does not catch: _macos_screensaver_active
\* catches FileNotFoundError only, so any other OSError of subprocess.run leaves
\* it; _linux_screensaver_active decodes the output with text=True outside what
\* its except clause names.  Neither _wait_for_screensaver nor _wait_with_pause
\* nor _run catches anything: the exception ends the thread.
ProbeRaises(w) ==
    /\ Probing(w)
    /\ tstate' = [tstate EXCEPT ![w] = "dead"]
    /\ pc' = [pc EXCEPT ![w] = "probe_raised"]
    /\ ctx' = [ctx EXCEPT ![w] = "run"]
    /\ waitTime' = [waitTime EXCEPT ![w] = 0]
    /\ elapsed' = [elapsed EXCEPT ![w] = 0]
    /\ stopMark' = [stopMark EXCEPT ![w] = "none"]
    /\ gateMark' = [gateMark EXCEPT ![w] = "none"]
    /\ UNCHANGED <<poolv, lock, stopEvent, thread, ret, imagePath, envv, wallpaper, hvars,
                   polv>>

ProbeNext ==
    \/ GateNext
    \/ \E w \in Workers : ProbeCaught(w)
    \/ \E w \in Workers : ProbeRaises(w)

ProbeSpec == GateInit /\ [][ProbeNext]_vars

----------------------------------------------------------------------------
\* PoolSpec: refresh_images and next_wallpaper called by both clients, with the
\* history of the picks.

\* The last n elements of a sequence.
LastN(s, n) == IF Len(s) <= n THEN s ELSE SubSeq(s, Len(s) - n + 1, Len(s))

\* A refresh replaces the pool: the history starts again.
RfImagesRec(t) ==
    /\ RfImagesStep(t)
    /\ shown' = <<>>
    /\ lastCycle' = <<>>
    /\ recent' = <<>>

\* A wrap reshuffle closes the current cycle.
NwAdvanceRec(t) ==
    /\ NwAdvanceStep(t)
    /\ IF images # <<>> /\ Wraps(index + 1, Len(images))
       THEN lastCycle' = shown /\ shown' = <<>>
       ELSE UNCHANGED <<lastCycle, shown>>
    /\ recent' = recent

\* The pick: the image next_wallpaper goes on to apply.
NwReadRec(t) ==
    /\ NwReadStep(t)
    /\ shown' = Append(shown, imagePath'[t])
    /\ recent' = LastN(Append(recent, imagePath'[t]), 2 * Len(images))
    /\ lastCycle' = lastCycle

\* Image files are added to the folder or removed from it.
FolderChange ==
    /\ folder' \in SUBSET ImageIds
    /\ folder' # folder
    /\ UNCHANGED <<poolv, lock, lifev, pc, ret, workv, imagePath, settings, screensaver,
                   wallpaper, stopMark, gateMark, hvars, polv>>

PoolNext ==
    \/ \E c \in Callers :
        \/ CallRefresh(c)
        \/ RfAcquire(c)
        \/ RfImagesRec(c)
        \/ RfIndex(c)
        \/ CallNext(c)
        \/ NwAcquire(c)
        \/ NwCheck(c)
        \/ NwAdvanceRec(c)
        \/ NwReadRec(c)
        \/ NwApply(c)
    \/ FolderChange

PoolSpec == Init /\ [][PoolNext]_vars

\* PoolFairSpec: the same calls on a folder that does not change, every thread
\* scheduled fairly: a thread that can take a step takes one, and a thread that
\* waits for the lock gets it if the lock is free again and again.
ClientStep(c) ==
    \/ RfImagesRec(c)
    \/ RfIndex(c)
    \/ NwCheck(c)
    \/ NwAdvanceRec(c)
    \/ NwReadRec(c)
    \/ NwApply(c)

ClientAcquire(c) ==
    \/ RfAcquire(c)
    \/ NwAcquire(c)

PoolFairNext ==
    \E c \in Callers :
        \/ CallRefresh(c)
        \/ CallNext(c)
        \/ ClientAcquire(c)
        \/ ClientStep(c)

PoolFairSpec ==
    /\ Init
    /\ [][PoolFairNext]_vars
    /\ \A c \in Callers : WF_vars(ClientStep(c))
    /\ \A c \in Callers : SF_vars(ClientAcquire(c))

----------------------------------------------------------------------------
\* CatalogSpec: one client calls refresh_images and next_wallpaper on a folder
\* that holds the user's images and entries that are no images, or on a path that
\* is no directory; set_wallpaper writes its copy when the folder can be written.
CatalogInit ==
    /\ folder \in (SUBSET UserEntries) \cup {{NotADirectory}}
    /\ images = <<>>
    /\ index = 0
    /\ InitRest

CatalogNext ==
    \/ CallRefresh(MainThread)
    \/ RfAcquire(MainThread)
    \/ RfImages(MainThread)
    \/ RfIndex(MainThread)
    \/ CallNext(MainThread)
    \/ NwAcquire(MainThread)
    \/ NwCheck(MainThread)
    \/ NwAdvance(MainThread)
    \/ NwRead(MainThread)
    \/ NwApply(MainThread)
    \/ NwApplyCopies(MainThread)

CatalogSpec == CatalogInit /\ [][CatalogNext]_vars

----------------------------------------------------------------------------
\* Properties

NoDup(s) == \A i, j \in 1..Len(s) : i # j => s[i] # s[j]
Count(s, x) == Cardinality({i \in 1..Len(s) : s[i] = x})
LastTwoEqual(s) == Len(s) >= 2 /\ s[Len(s)] = s[Len(s) - 1]

\* C1: a pick that finds the pool empty, on a folder that lists no images,
\* returns to its caller with the pool lock released.
C1_EmptyPickReturns ==
    \A c \in Callers :
        (pc[c] = "nw_check" /\ images = <<>> /\ folder = {})
            ~> (pc[c] = "idle" /\ lock # c)

\* C2: the picks of one cycle are distinct images of the pool, and a cycle that
\* a wrap reshuffle has closed holds every image of the pool exactly once (so the
\* wrap came exactly when the cursor would have run past the end).
C2_CycleShowsEachOnce ==
    /\ NoDup(shown)
    /\ Range(shown) \subseteq Range(images)
    /\ lastCycle # <<>> =>
          /\ Len(lastCycle) = Len(images)
          /\ Range(lastCycle) = Range(images)

\* A whole cycle has been closed by a wrap and the next one has been shown in full.
C2_Witness ==
    /\ Len(images) = NImages
    /\ lastCycle # <<>>
    /\ Len(shown) = Len(images)

\* C3 as claimed: with more than one image no two consecutive picks are equal.
C3_NoImmediateRepeat ==
    Len(images) > 1 => ~LastTwoEqual(recent)

\* C3 as amended: with more than one image, consecutive picks of one cycle
\* differ; two equal consecutive picks are the last pick of a cycle and the first
\* pick after the wrap reshuffle.
C3_RepeatOnlyAcrossWrap ==
    Len(images) > 1 =>
        /\ \A i \in 1..(Len(shown) - 1) : shown[i] # shown[i + 1]
        /\ LastTwoEqual(recent) => Len(shown) <= 1

\* The first pick after a wrap repeats the last pick before it.
C3_Witness ==
    /\ Len(images) > 1
    /\ LastTwoEqual(recent)
    /\ Len(shown) = 1

\* C4 as claimed: with N > 1 images, every image appears at least twice in any 2N
\* consecutive picks.
C4_TwiceInAnyWindow ==
    (Len(images) > 1 /\ Len(recent) = 2 * Len(images)) =>
        \A img \in Range(images) : Count(recent, img) >= 2

\* C4 as amended: with N > 1 images, every image appears at least once in any 2N
\* consecutive picks, and exactly twice when the 2N picks are two whole cycles.
C4_TwiceInAlignedWindow ==
    (Len(images) > 1 /\ Len(recent) = 2 * Len(images)) =>
        /\ \A img \in Range(images) : Count(recent, img) >= 1
        /\ Len(shown) = Len(images) =>
              \A img \in Range(images) : Count(recent, img) = 2

\* 2N picks since the last refresh, the last of them closing a cycle.
C4_Witness ==
    /\ Len(images) > 1
    /\ Len(recent) = 2 * Len(images)
    /\ Len(shown) = Len(images)

\* C5: a pick reads the pool only while it holds the lock and no refresh is
\* between replacing the list and resetting the cursor, and the cursor it reads
\* the image at is a position of the list.
C5_PickSeesWholePool ==
    \A t \in Threads :
        pc[t] \in {"nw_check", "nw_advance", "nw_read"} =>
            /\ lock = t
            /\ \A u \in Threads \ {t} : pc[u] \notin {"rf_images", "rf_index"}
            /\ pc[t] = "nw_read" => index + 1 \in DOMAIN images

\* A refresh_images call waits for the lock while a pick is about to read its image.
C5_Witness ==
    \E t, u \in Threads :
        /\ pc[t] = "nw_read"
        /\ pc[u] = "rf_lock"
        /\ ret[u] = "idle"

\* C6: at most one worker thread is alive.
C6_AtMostOneWorker ==
    Cardinality({w \in Workers : tstate[w] = "alive"}) <= 1

\* C7: a worker that was in its countdown (or in a gated pause of it) when the
\* stop signal was set applies no further wallpaper.
C7_StopInWaitEndsPicks ==
    \A w \in Workers : stopMark[w] = "wait" => pc[w] # "nw_apply"

C9_StopReturns ==
    \A c \in Callers :
        /\ pc[c] = "p_set" => ENABLED StopSet(c)
        /\ pc[c] = "p_join" => ENABLED StopJoin(c)

\* stop() is at its join while the worker is blocked for good on the pool lock.
C9_Witness ==
    \E c \in Callers, w \in Workers :
        /\ pc[c] = "p_join"
        /\ thread = w
        /\ tstate[w] = "alive"
        /\ pc[w] = "rf_lock"
        /\ lock = w

\* C10: every refresh_images or next_wallpaper call returns.
C10_PoolCallsReturn ==
    \A c \in Callers : (pc[c] # "idle") ~> (pc[c] = "idle")

\* A thread inside next_wallpaper (its nested refresh_images included).
Picking(t) ==
    \/ pc[t] \in {"nw_lock", "nw_check", "nw_advance", "nw_read", "nw_apply"}
    \/ pc[t] \in {"rf_lock", "rf_images", "rf_index"} /\ ret[t] = "nw_advance"

\* C11: a worker whose countdown the screensaver interrupted performs no pick
\* while the screensaver stays active, and a worker performs a pick only when no
\* countdown is pending: the countdown the screensaver paused is completed
\* before the one pick that follows it.
C11_GateSuspendsPicks ==
    \A w \in Workers :
        /\ gateMark[w] = "active" => ~Picking(w)
        /\ Picking(w) => waitTime[w] = 0 /\ elapsed[w] = 0
        /\ gateMark[w] # "none" /\ Phase(w) = "wait" => waitTime[w] >= MinWait

\* The screensaver came and went during the countdown, the countdown is over and
\* the worker applies its pick.
C11_Witness ==
    \E w \in Workers : gateMark[w] = "cleared" /\ pc[w] = "nw_apply"

\* C12: every wait a worker computes is a wait that one of the policies in
\* effect during the computation yields: the policy before a reconfiguration or
\* the policy after it.
C12_WaitFromOnePolicy ==
    \A w \in Workers :
        pc[w] = "nwt_ret" => \E p \in snaps[w] : waitTime[w] \in NextWait(p)

\* C13: every wait _next_wait computes, and every wait a countdown runs on, is at
\* least 10 seconds.
C13_WaitAtLeastTen ==
    \A w \in Workers :
        /\ pc[w] \in {"nwt_ret", "wwp_loop", "wwp_wait", "wwp_sleep"} => waitTime[w] >= MinWait
        /\ pc[w] \in {"nwt_max", "nwt_mode", "nwt_rand"} => minWait[w] >= MinWait

\* A wait was computed in random mode from a minimum below 10 that no check had
\* seen, while _save was assigning the fields.
C13_Witness ==
    \E w \in Workers :
        /\ pc[w] = "nwt_ret"
        /\ seen[w].random_mode
        /\ seen[w].random_min_seconds < MinWait
        /\ Cardinality(snaps[w]) > 1

\* C14: in fixed mode the computed wait is max(10, interval_seconds), whatever
\* the random minimum and maximum are.
C14_FixedWait ==
    \A w \in Workers :
        (pc[w] = "nwt_ret" /\ ~seen[w].random_mode) =>
            waitTime[w] = Max(MinWait, seen[w].interval_seconds)

\* A fixed wait above 10 was computed while the random minimum was not the interval.
C14_Witness ==
    \E w \in Workers :
        /\ pc[w] = "nwt_ret"
        /\ ~seen[w].random_mode
        /\ seen[w].interval_seconds > MinWait
        /\ waitTime[w] = seen[w].interval_seconds
        /\ seen[w].random_min_seconds # seen[w].interval_seconds

\* C15 as claimed: in random mode the computed wait lies between
\* max(10, random_min_seconds) and max(random_min_seconds, random_max_seconds).
C15_RandomWaitInClaimedRange ==
    \A w \in Workers :
        (pc[w] = "nwt_ret" /\ seen[w].random_mode) =>
            /\ Max(MinWait, seen[w].random_min_seconds) <= waitTime[w]
            /\ waitTime[w] <= Max(seen[w].random_min_seconds, seen[w].random_max_seconds)

\* C15 as amended: in random mode the computed wait lies between
\* lo = max(10, random_min_seconds) and max(lo, random_max_seconds), and every
\* integer of that interval can be drawn.
C15_RandomWaitInRange ==
    \A w \in Workers :
        LET lo == Max(MinWait, seen[w].random_min_seconds)
            hi == Max(lo, seen[w].random_max_seconds)
        IN  /\ (pc[w] = "nwt_ret" /\ seen[w].random_mode) => (lo <= waitTime[w] /\ waitTime[w] <= hi)
            /\ pc[w] = "nwt_rand" =>
                  \A v \in lo..hi : ENABLED (NwtRand(w) /\ waitTime'[w] = v)

\* A wait strictly inside the interval was drawn from a minimum below 10.
C15_Witness ==
    \E w \in Workers :
        /\ pc[w] = "nwt_ret"
        /\ seen[w].random_mode
        /\ seen[w].random_min_seconds < MinWait
        /\ MinWait < waitTime[w]
        /\ waitTime[w] < seen[w].random_max_seconds

\* C17: whenever a worker computes a wait the settings hold a valid policy.
C17_ValidPolicyAtWorker ==
    \A w \in Workers :
        pc[w] \in {"next_wait", "nwt_max", "nwt_mode", "nwt_rand", "nwt_fixed"} =>
            /\ settings.interval_seconds >= MinWait
            /\ settings.random_min_seconds >= MinWait
            /\ settings.random_max_seconds >= settings.random_min_seconds

\* C16: no failure of the platform wallpaper call leaves set_wallpaper as an
\* exception: no worker is ended by one and no client thread receives one.
C16_SinkFailureContained ==
    \A t \in Threads : pc[t] \notin {"crashed", "raised"}

\* C19: a thread that executes set_wallpaper, or that is suspended in a wait on
\* the stop event (in the gating wait or in the countdown), does not hold the
\* pool lock.
C19_NoLockInSinkOrSleep ==
    \A t \in Threads :
        pc[t] \in {"nw_apply", "wfs_wait", "wfs_sleep", "wwp_wait", "wwp_sleep", "woken"} =>
            lock # t

\* A thread executes set_wallpaper while another thread holds the pool lock, and
\* a worker sleeps in a slice.
C19_Witness ==
    /\ \E t \in Threads : pc[t] = "nw_apply" /\ lock \notin {NoThread, t}
    /\ \E w \in Workers : pc[w] \in {"wfs_sleep", "wwp_sleep"}

\* C18: lifecycle misuse is a no-op.  A stop() that finds no thread and a
\* start() that finds the worker alive change nothing; stop() sets the signal
\* only when there is a thread, start() goes on only when no worker is alive; a
\* stop() after a stop() leaves the signal set and the thread as it is, and no
\* step of stop() other than set() changes the lifecycle state.
C18_MisuseIsNoOp ==
    [][\A c \in Callers :
        /\ (pc[c] = "idle" /\ pc'[c] = "p_return") => (thread = NoThread /\ UNCHANGED lifev)
        /\ (pc[c] = "idle" /\ pc'[c] = "s_return") => (Running /\ UNCHANGED lifev)
        /\ (pc[c] = "idle" /\ pc'[c] = "p_set") => thread # NoThread
        /\ (pc[c] = "idle" /\ pc'[c] = "s_clear") => ~Running
        /\ (pc[c] = "p_set" /\ pc'[c] = "p_join" /\ stopEvent) => UNCHANGED lifev
        /\ (pc[c] = "p_join" /\ pc'[c] = "idle") => UNCHANGED lifev
        /\ (pc[c] \in {"p_return", "s_return"} /\ pc'[c] = "idle") => UNCHANGED lifev]_vars

\* A start() has found the worker alive and is about to return.
C18_Witness ==
    \E c \in Callers : pc[c] = "s_return" /\ Running

\* C20: when start() returns the stop signal is clear and the worker that
\* self._thread names is alive.
C20_StartLeavesRunning ==
    \A c \in Callers : pc[c] = "s_return" => (~stopEvent /\ Running)

C29_AppliesLeaveListing ==
    SharedCopy \notin Range(images)

\* C22: whenever the pool lock is free and the pool is not empty, the cursor is
\* -1 (nothing picked since the refresh) or the position of an image of the pool.
C22_CursorInPool ==
    (lock = NoThread /\ images # <<>>) => (-1 <= index /\ index < Len(images))

\* A refresh has shrunk the pool after a pick: the image applied last is no
\* longer in the pool and the cursor is back at -1.
C22_Witness ==
    /\ lock = NoThread
    /\ Len(images) = 1
    /\ index = -1
    /\ wallpaper # NoImage
    /\ wallpaper \notin Range(images)

\* C23: while a worker stays in its countdown the wait time is fixed and elapsed
\* never decreases and never exceeds the wait time; a gated pause inside the
\* countdown leaves elapsed as it is; the countdown ends by returning to _run
\* only when elapsed has reached the wait time, and otherwise only with the stop
\* signal set.
C23_CountdownKeepsProgress ==
    [][\A w \in Workers :
        Phase(w) = "wait" =>
            /\ Phase(w)' = "wait" =>
                  /\ waitTime'[w] = waitTime[w]
                  /\ elapsed'[w] >= elapsed[w]
                  /\ elapsed'[w] <= waitTime[w]
                  /\ ctx[w] = "wwp" /\ pc[w] \in {"wfs_probe", "wfs_wait", "wfs_sleep"} =>
                        elapsed'[w] = elapsed[w]
            /\ Phase(w)' # "wait" =>
                  \/ pc'[w] = "run" /\ elapsed[w] >= waitTime[w]
                  \/ pc'[w] = "done" /\ stopEvent
                  \/ pc'[w] = "woken" /\ stopEvent']_vars

\* A worker sits in a gated pause of its countdown with part of the wait done.
C23_Witness ==
    \E w \in Workers :
        /\ ctx[w] = "wwp"
        /\ pc[w] = "wfs_sleep"
        /\ elapsed[w] > 0
        /\ elapsed[w] < waitTime[w]

\* C24: an assignment to the settings changes neither the wait time nor the
\* elapsed time nor the position of any worker; the wait time of a countdown
\* stays what it was computed to be; and a wait computed entirely under the
\* policy now in effect is a wait of that policy.
C24_SaveLeavesCountdown ==
    [][\A w \in Workers :
        /\ settings' # settings =>
              (waitTime'[w] = waitTime[w] /\ elapsed'[w] = elapsed[w] /\ pc'[w] = pc[w])
        /\ (Phase(w) = "wait" /\ Phase(w)' = "wait") => waitTime'[w] = waitTime[w]
        /\ (pc[w] = "nwt_ret" /\ snaps[w] = {settings}) =>
              waitTime[w] \in NextWait(settings)]_vars

\* A save has finished during a countdown that runs on with a wait the new
\* policy does not yield.
C24_Witness ==
    \E w \in Workers :
        /\ pc[w] \in {"wwp_loop", "wwp_wait", "wwp_sleep"}
        /\ elapsed[w] > 0
        /\ pc[MainThread] = "idle"
        /\ waitTime[w] \notin NextWait(settings)

\* C25: a worker enters next_wallpaper only from a gate check that found the
\* screensaver inactive, leaves it only into the computation of the wait, starts
\* the countdown at zero with a wait of at least 10 seconds, and comes back to
\* the head of its loop only from a countdown whose elapsed time has reached the
\* wait; a worker that the stop signal ended picks no more.
C25_FullCountdownBetweenPicks ==
    [][\A w \in Workers :
        /\ (~Picking(w) /\ Picking(w)') =>
              (pc[w] = "wfs_probe" /\ ctx[w] = "run" /\ ~screensaver)
        /\ (Picking(w) /\ ~Picking(w)') => pc'[w] = "next_wait"
        /\ (pc[w] = "next_wait" /\ pc'[w] # "next_wait") =>
              (pc'[w] = "wwp_loop" /\ elapsed'[w] = 0 /\ waitTime'[w] >= MinWait)
        /\ (pc[w] # "run" /\ pc'[w] = "run") =>
              \/ pc[w] = "unborn"
              \/ pc[w] = "wwp_loop" /\ elapsed[w] >= waitTime[w] /\ waitTime[w] >= MinWait
        /\ (pc[w] = "run" /\ pc'[w] # "run") => pc'[w] \in {"wfs_probe", "done"}
        /\ pc[w] \in {"done", "woken"} => pc'[w] \in {"done", "woken"}]_vars

\* A countdown that the screensaver had paused is over: its elapsed time has
\* reached the wait and the worker is about to go round its loop again.
C25_Witness ==
    \E w \in Workers :
        /\ pc[w] = "wwp_loop"
        /\ gateMark[w] = "cleared"
        /\ waitTime[w] >= MinWait
        /\ elapsed[w] >= waitTime[w]
        /\ wallpaper # NoImage

\* C26: every step of a client thread inside next_wallpaper leaves the stop
\* signal, self._thread, the Thread objects and every worker's position, wait
\* time and elapsed time unchanged; on a pool that is not empty it moves the
\* cursor to the next position (to 0 after the last) and keeps the images of the
\* pool, reads the image at that cursor, and hands no other image to
\* set_wallpaper.
C26_AdvanceNowFrame ==
    [][\A c \in Callers :
        (Picking(c) /\ pc'[c] # pc[c]) =>
            /\ UNCHANGED <<lifev, workv>>
            /\ \A w \in Workers : pc'[w] = pc[w]
            /\ (pc[c] = "nw_advance" /\ images # <<>>) =>
                  /\ index' = (index + 1) % Len(images)
                  /\ Range(images') = Range(images)
                  /\ pc'[c] = "nw_read"
            /\ pc[c] = "nw_read" =>
                  (UNCHANGED poolv /\ imagePath'[c] = ImageAt(images, index))
            /\ pc[c] = "nw_apply" =>
                  (UNCHANGED poolv /\ wallpaper' \in {imagePath[c], wallpaper})]_vars

\* The tray thread is about to apply its pick while a worker is in the middle
\* of its countdown.
C26_Witness ==
    /\ pc[TrayThread] = "nw_apply"
    /\ ~stopEvent
    /\ \E w \in Workers :
          /\ pc[w] \in {"wwp_loop", "wwp_wait", "wwp_sleep"}
          /\ 0 < elapsed[w]
          /\ elapsed[w] < waitTime[w]

\* C27: no failure of the screensaver probe ends a worker.
C27_ProbeFailureKeepsWorker ==
    \A w \in Workers : pc[w] # "probe_raised"

\* C28: once every call has returned after at least one pick on the current
\* pool, the wallpaper applied last is the image at the cursor.
C28_LastAppliedIsCursor ==
    ((\A c \in Callers : pc[c] = "idle") /\ images # <<>> /\ index >= 0) =>
        wallpaper = ImageAt(images, index)

\* C30: while _save shows an error box the settings are what they were when the
\* save button was pressed.
C30_FailedSaveChangesNothing ==
    \A c \in Callers : pc[c] = "sv_error" => settings = dialog.before

====
